---- MODULE Spec2Model ----
(***************************************************************************)
(* mlgen2: the feed-forward Brain (bases.py) and the generational genetic  *)
(* algorithm GlobalGA (evolvers.py).                                        *)
(*                                                                          *)
(* A Python call either returns a value or raises; both are modelled as an  *)
(* outcome record.  A call that draws random numbers is modelled as the set *)
(* of outcomes it can produce.  Floats are modelled as integers (the values *)
(* the bounded inputs take), selection_frac as an exact fraction num/den.   *)
(***************************************************************************)
EXTENDS Integers, Sequences, FiniteSets, TLC

VARIABLES
    ga,         \* the GlobalGA instance (its four hyperparameters)
    critters,   \* the caller's list of Critter objects
    last,       \* the most recent GlobalGA call: operation, arguments, outcome
    net,        \* the Brain instance under inference
    out         \* the most recent Brain.__call__: input and outcome

vars == <<ga, critters, last, net, out>>

(***************************** bounds **************************************)
MaxPop == 3         \* critters in the list handed to GlobalGA
MaxSelectPop == 4   \* list length in the selection-only specification
MaxSelectFit == 3   \* fitness values there are 0..MaxSelectFit
MaxWidth == 2       \* widest network layer
MaxBatch == 2       \* rows of a batched input

(************************* Python outcomes *********************************)
Return(v) == [status |-> "return", exc |-> "", at |-> "", value |-> v]

Raise(e, where) == [status |-> "raise", exc |-> e, at |-> where, value |-> <<>>]

Returned(o) == o.status = "return"

\* the first raising outcome of a sequence of outcomes evaluated in order
FirstRaise(os) ==
    os[CHOOSE k \in 1..Len(os) :
          /\ ~Returned(os[k])
          /\ \A j \in 1..(k - 1) : Returned(os[j])]

AllReturned(os) == \A k \in 1..Len(os) : Returned(os[k])

RECURSIVE SumTo(_, _)
SumTo(f, n) == IF n = 0 THEN 0 ELSE f[n] + SumTo(f, n - 1)

RECURSIVE Concat(_)
Concat(ss) == IF ss = <<>> THEN <<>> ELSE Head(ss) \o Concat(Tail(ss))

Min2(a, b) == IF a <= b THEN a ELSE b

Max2(a, b) == IF a >= b THEN a ELSE b

(************************* numpy, as bases.py uses it **********************)
\* an ndarray of one dimension (data: numbers) or two (data: rows)
Array1(v) == [ndim |-> 1, data |-> v]

Array2(rows) == [ndim |-> 2, data |-> rows]

\* np.dot of a 1-D vector with a 2-D matrix (a sequence of rows).  A mutant:
\* a product that pairs the elements up and ignores the surplus.
np_dot_zip(v, m) ==
    LET n == Min2(Len(v), Len(m))
        cols == IF Len(m) = 0 THEN 0 ELSE Len(m[1])
    IN Return([j \in 1..cols |-> SumTo([i \in 1..n |-> v[i] * m[i][j]], n)])

np_dot(v, m) ==
    IF Len(v) # Len(m)
    THEN Raise("ValueError", "np.dot")
    ELSE LET cols == IF Len(m) = 0 THEN 0 ELSE Len(m[1])
         IN Return([j \in 1..cols |->
                SumTo([i \in 1..Len(v) |-> v[i] * m[i][j]], Len(v))])

\* a + b with broadcasting of 1-D operands
np_add(a, b) ==
    IF Len(a) = Len(b) THEN Return([j \in 1..Len(a) |-> a[j] + b[j]])
    ELSE IF Len(b) = 1 THEN Return([j \in 1..Len(a) |-> a[j] + b[1]])
    ELSE IF Len(a) = 1 THEN Return([j \in 1..Len(b) |-> a[1] + b[j]])
    ELSE Raise("ValueError", "broadcast")

\* the activation callables the bounded inputs use
ActivationFns == {"identity", "relu"}

apply_af(f, a) ==
    IF f = "relu" THEN [j \in 1..Len(a) |-> Max2(a[j], 0)] ELSE a

(******************************* Brain *************************************)
Brain(afs, coefs, intercepts) ==
    IF ~(Len(afs) = Len(coefs) /\ Len(coefs) = Len(intercepts))
    THEN Raise("AssertionError", "Brain.__init__")
    ELSE Return([afs |-> afs, coefs |-> coefs, intercepts |-> intercepts,
                 n_layers |-> Len(coefs) + 1])

\* the value np.random.rand yields for element (r, c) of layer i, as a
\* function of the generator's seed, in integer units
rand(seed, i, r, c) == (seed + i + r * c) % 2

Brain_random_init(af, lws, seed) ==
    LET coefs == [i \in 1..(Len(lws) - 1) |->
                    [r \in 1..lws[i] |->
                        [c \in 1..lws[i + 1] |-> rand(seed, i, r, c)]]]
        ints == [i \in 1..(Len(lws) - 1) |->
                    [c \in 1..lws[i + 1] |-> rand(seed + 1, i, 0, c)]]
    IN Brain(af, coefs, ints)

\* the loop of lines 110-112 from layer i on; activity is activity[i-1]
RECURSIVE forward(_, _, _)
forward(b, i, activity) ==
    IF i > Len(b.coefs) THEN Return(Array1(activity))
    ELSE LET d == np_dot(activity, b.coefs[i])
         IN IF ~Returned(d) THEN d
            ELSE LET s == np_add(d.value, b.intercepts[i])
                 IN IF ~Returned(s) THEN s
                    ELSE forward(b, i + 1, apply_af(b.afs[i], s.value))

Brain_call(b, x) ==
    IF x.ndim > 1
    THEN LET rows == [k \in 1..Len(x.data) |-> forward(b, 1, x.data[k])]
         IN IF ~AllReturned(rows) THEN FirstRaise(rows)
            ELSE Return(Array1(Concat([k \in 1..Len(rows) |-> rows[k].value.data])))
    ELSE forward(b, 1, x.data)

(************************ the inference specification **********************)
NoBrain == [afs |-> <<>>, coefs |-> <<>>, intercepts |-> <<>>, n_layers |-> 0]

NoCall == [op |-> "none", x |-> Array1(<<>>), res |-> Return(<<>>)]

LayerWidths ==
    UNION {[1..n -> 1..MaxWidth] : n \in 2..3}

\* the input vectors of width n: 0 1 0 ... and 1 0 1 ...
Vectors(n) == {[k \in 1..n |-> (s + k) % 2] : s \in 0..1}

\* single vectors and batches, of every width up to one more than the widest
\* layer
Inputs ==
    UNION {{Array1(v) : v \in Vectors(n)}
           \cup UNION {{Array2(rows) : rows \in [1..k -> Vectors(n)]} :
                          k \in 1..MaxBatch}
           : n \in 0..(MaxWidth + 1)}

Brains ==
    {o.value : o \in
        {b \in {Brain_random_init(af, lws, seed) :
                    af \in UNION {[1..n -> ActivationFns] : n \in 1..2},
                    lws \in LayerWidths, seed \in 0..1} : Returned(b)}}

\* net(x) for the input x at hand
Infer ==
    /\ out' = [op |-> "call", x |-> out.x, res |-> Brain_call(net, out.x)]
    /\ UNCHANGED <<ga, critters, last, net>>

(***************** Python built-ins, as evolvers.py uses them **************)
PyList(items) == [type |-> "list", items |-> items]

PyInt(n) == [type |-> "int", items |-> <<n>>]

\* the view object dict.keys() returns: sized and iterable, not subscriptable
DictKeys(items) == [type |-> "dict_keys", items |-> items]

\* random.choice(seq) is seq[randbelow(len(seq))]
random_choice(seq) ==
    IF seq.type # "list" THEN {Raise("TypeError", "random.choice")}
    ELSE IF Len(seq.items) = 0 THEN {Raise("IndexError", "random.choice")}
    ELSE {Return(seq.items[k]) : k \in 1..Len(seq.items)}

\* random.sample(population, 2): an ordered pair from two distinct positions
random_sample2(population) ==
    IF Len(population) < 2 THEN {Raise("ValueError", "random.sample")}
    ELSE {Return(<<population[q[1]], population[q[2]]>>) :
            q \in {p \in (1..Len(population)) \X (1..Len(population)) :
                      p[1] # p[2]}}

\* range(n): n must be an integer
py_range(n) ==
    IF n.type # "int" THEN Raise("TypeError", "range")
    ELSE Return([k \in 1..n.items[1] |-> k - 1])

\* np.random.uniform(low, high): every value between the two ends
uniform(low, high) == Min2(low, high)..Max2(low, high)

\* int(n * f) for n >= 0 and the fraction f = num/den
int_times(n, f) == (n * f.num) \div f.den

(****************************** data model *********************************)
PhysiqueAtts == <<"mass", "max_s", "max_dsp", "max_dsn", "max_dh">>

Physique(mass, max_s, max_dsp, max_dsn, max_dh) ==
    [mass |-> mass, max_s |-> max_s, max_dsp |-> max_dsp,
     max_dsn |-> max_dsn, max_dh |-> max_dh]

\* Physique(**kwargs) from the values in PhysiqueAtts order
PhysiqueOf(vals) == Physique(vals[1], vals[2], vals[3], vals[4], vals[5])

Location(position, heading, speed) ==
    [position |-> position, heading |-> heading, speed |-> speed]

Sensory(labels) == [labels |-> labels, width |-> Len(labels)]

\* a Critter object: id is the object's identity, cls its __class__
Critter(id, cls, physique, sensory, brain, location, fitness, energy) ==
    [id |-> id, cls |-> cls, physique |-> physique, sensory |-> sensory,
     brain |-> brain, location |-> location, fitness |-> fitness,
     energy |-> energy]

\* the classes whose constructor takes (physique, sensory, brain, location);
\* Plant is left out: its constructor calls the float np.pi and raises
Species == {"Critter", "Herby"}

(****************************** GlobalGA ***********************************)
GlobalGA(selection_frac, crossover_rate, physical_mutation_rate, mental_mutation_rate) ==
    IF ~(0 < selection_frac.num /\ selection_frac.num < selection_frac.den)
    THEN Raise("AssertionError", "GlobalGA.__init__")
    ELSE IF ~(0 <= crossover_rate /\ crossover_rate <= 1)
    THEN Raise("AssertionError", "GlobalGA.__init__")
    ELSE IF ~(0 <= physical_mutation_rate)
    THEN Raise("AssertionError", "GlobalGA.__init__")
    ELSE IF ~(0 <= mental_mutation_rate)
    THEN Raise("AssertionError", "GlobalGA.__init__")
    ELSE Return([selection_frac |-> selection_frac,
                 crossover_rate |-> crossover_rate,
                 physical_mutation_rate |-> physical_mutation_rate,
                 mental_mutation_rate |-> mental_mutation_rate])

\* sorted(critters, key=fitness, reverse=True): a stable sort, so equal keys
\* keep their order under reverse too.  A mutant: the ascending sort reversed
\* afterwards, which turns the order of equal keys around.
RECURSIVE sorted_then_reversed(_)
sorted_then_reversed(cs) ==
    IF cs = <<>> THEN <<>>
    ELSE LET rest == sorted_then_reversed(SubSeq(cs, 1, Len(cs) - 1))
             e == cs[Len(cs)]
             before == {k \in 1..Len(rest) : rest[k].fitness > e.fitness}
         IN SubSeq(rest, 1, Cardinality(before)) \o <<e>>
            \o SubSeq(rest, Cardinality(before) + 1, Len(rest))

RECURSIVE sorted_reverse(_)
sorted_reverse(cs) ==
    IF cs = <<>> THEN <<>>
    ELSE LET rest == sorted_reverse(SubSeq(cs, 1, Len(cs) - 1))
             e == cs[Len(cs)]
             before == {k \in 1..Len(rest) : rest[k].fitness >= e.fitness}
         IN SubSeq(rest, 1, Cardinality(before)) \o <<e>>
            \o SubSeq(rest, Cardinality(before) + 1, Len(rest))

select(g, cs) ==
    LET c == sorted_reverse(cs)
    IN SubSeq(c, 1, int_times(Len(c), g.selection_frac))

\* the attributes whose value is a Python list
ListAtts == {"coefs", "intercepts"}

\* getattr(p, att) * (1 - rate) + getattr(s, att) * rate, left to right;
\* rate is a float, and a list cannot be multiplied by a float
crossover_att(g, p, s, att) ==
    LET rate == g.crossover_rate
    IN IF att \notin DOMAIN p THEN Raise("AttributeError", "getattr")
       ELSE IF att \in ListAtts THEN Raise("TypeError", "list * float")
       ELSE IF att \notin DOMAIN s THEN Raise("AttributeError", "getattr")
       ELSE Return(p[att] * (1 - rate) + s[att] * rate)

\* Brain(**kwargs): afs is a required parameter
Brain_kwargs(kw) ==
    IF "afs" \notin DOMAIN kw THEN Raise("TypeError", "Brain.__init__")
    ELSE Brain(kw.afs, kw.coefs, kw.intercepts)

crossover(g, primary, secondary) ==
    LET p_atts == PhysiqueAtts
        cross_p_atts == [k \in 1..Len(p_atts) |->
                            crossover_att(g, primary, secondary, p_atts[k])]
    IN IF ~AllReturned(cross_p_atts) THEN FirstRaise(cross_p_atts)
       ELSE LET physique == PhysiqueOf([k \in 1..Len(p_atts) |->
                                            cross_p_atts[k].value])
                m_atts == <<"coefs", "intercepts">>
                cross_b_atts == [k \in 1..Len(m_atts) |->
                                    crossover_att(g, primary, secondary, m_atts[k])]
            IN IF ~AllReturned(cross_b_atts) THEN FirstRaise(cross_b_atts)
               ELSE LET brain == Brain_kwargs([coefs |-> cross_b_atts[1].value,
                                              intercepts |-> cross_b_atts[2].value])
                    IN IF ~Returned(brain) THEN brain
                       ELSE Return(<<physique, brain.value>>)

\* the outcomes of _mutate_physique; a returned physique is the argument
\* object itself, updated in place
mutate_physique(g, physique) ==
    UNION {IF ~Returned(att) THEN {att}
           ELSE LET val == physique[att.value]
                IN {Return([physique EXCEPT ![att.value] = val + d]) :
                      d \in uniform(val * (1 - g.physical_mutation_rate),
                                    val * (1 + g.physical_mutation_rate))}
           : att \in random_choice(DictKeys(PhysiqueAtts))}

\* val + np.random.uniform(val*(1-rate), val*(1+rate), val.shape) for a
\* vector val
perturbed(val, rate) ==
    {nv \in [1..Len(val) ->
                UNION {{val[k] + d : d \in uniform(val[k] * (1 - rate),
                                                   val[k] * (1 + rate))} :
                          k \in 1..Len(val)}] :
        \A k \in 1..Len(val) :
            (nv[k] - val[k]) \in uniform(val[k] * (1 - rate), val[k] * (1 + rate))}

\* the same for a tensor of the named attribute: a matrix for coefs
perturbed_tensor(att, val, rate) ==
    IF att = "coefs"
    THEN {m \in [1..Len(val) -> UNION {perturbed(val[r], rate) : r \in 1..Len(val)}] :
            \A r \in 1..Len(val) : m[r] \in perturbed(val[r], rate)}
    ELSE perturbed(val, rate)

mutate_brain(g, brain) ==
    UNION {IF ~Returned(att) THEN {att}
           ELSE LET layers == py_range(PyList(brain.coefs))
                IN IF ~Returned(layers) THEN {layers}
                   ELSE UNION {IF ~Returned(layer_num) THEN {layer_num}
                               ELSE LET n == layer_num.value + 1
                                        full_val == brain[att.value]
                                        val == full_val[n]
                                    IN {Return([brain EXCEPT ![att.value][n] = new_val]) :
                                          new_val \in perturbed_tensor(
                                              att.value, val, g.mental_mutation_rate)}
                               : layer_num \in random_choice(PyList(layers.value))}
           : att \in random_choice(PyList(<<"coefs", "intercepts">>))}

\* the optional mutation steps of mate_pair
maybe_mutate_physique(g, physique, mutate) ==
    IF mutate THEN mutate_physique(g, physique) ELSE {Return(physique)}

maybe_mutate_brain(g, brain, mutate) ==
    IF mutate THEN mutate_brain(g, brain) ELSE {Return(brain)}

\* a mutant of mate_pair: the species assertion left out
mate_pair_unchecked(g, primary, secondary, location, mutate_physique_, mutate_brain_, fresh) ==
    LET sensory == primary.sensory
        cls == primary.cls
        crossed == crossover(g, primary, secondary)
    IN IF ~Returned(crossed) THEN {crossed}
       ELSE UNION {IF ~Returned(p) THEN {p}
                   ELSE {IF ~Returned(b) THEN b
                         ELSE Return(Critter(fresh, cls, p.value, sensory,
                                             b.value, location, 0, 0))
                         : b \in maybe_mutate_brain(g, crossed.value[2],
                                                    mutate_brain_)}
                   : p \in maybe_mutate_physique(g, crossed.value[1],
                                                 mutate_physique_)}

\* the outcomes of mate_pair; fresh is the identity of the object it creates
mate_pair(g, primary, secondary, location, mutate_physique_, mutate_brain_, fresh) ==
    IF primary.cls # secondary.cls
    THEN {Raise("AssertionError", "mate_pair")}
    ELSE LET sensory == primary.sensory
             cls == primary.cls
             crossed == crossover(g, primary, secondary)
         IN IF ~Returned(crossed) THEN {crossed}
            ELSE UNION {IF ~Returned(p) THEN {p}
                        ELSE {IF ~Returned(b) THEN b
                              ELSE Return(Critter(fresh, cls, p.value, sensory,
                                                  b.value, location, 0, 0))
                              : b \in maybe_mutate_brain(g, crossed.value[2],
                                                         mutate_brain_)}
                        : p \in maybe_mutate_physique(g, crossed.value[1],
                                                      mutate_physique_)}

\* Location() with its defaults
DefaultLocation == Location(<<0, 0>>, 0, 0)

\* the outcomes of the first n rounds of the loop of lines 139-143: the
\* new_gen_pool so far, or the exception that ended the loop
RECURSIVE new_gen_pool(_, _, _, _, _, _)
new_gen_pool(g, selection, n, mutate_physique_, mutate_brain_, fresh) ==
    IF n = 0 THEN {Return(<<>>)}
    ELSE UNION {
        IF ~Returned(pool) THEN {pool}
        ELSE UNION {
            IF ~Returned(ab) THEN {ab}
            ELSE {IF ~Returned(offspring) THEN offspring
                  ELSE Return(Append(pool.value, offspring.value))
                  : offspring \in mate_pair(g, ab.value[1], ab.value[2],
                                            DefaultLocation, mutate_physique_,
                                            mutate_brain_, fresh + n)}
            : ab \in random_sample2(selection)}
        : pool \in new_gen_pool(g, selection, n - 1, mutate_physique_,
                                mutate_brain_, fresh)}

evolve_generation(g, cs, mutate_physique_, mutate_brain_) ==
    LET selection == select(g, cs)
        new_gen_size == Len(cs) - Len(selection)
    IN {IF ~Returned(pool) THEN pool ELSE Return(selection \o pool.value)
        : pool \in new_gen_pool(g, selection, new_gen_size, mutate_physique_,
                                mutate_brain_, Len(cs))}

(************************ the GlobalGA specifications **********************)
\* hyperparameters offered to the constructor; its assertions keep the valid
SelectionFracs == {[num |-> n, den |-> 4] : n \in 0..4}

GAs ==
    {o.value : o \in
        {g \in {GlobalGA(f, c, m[1], m[2]) :
                    f \in SelectionFracs, c \in -1..2,
                    m \in {<<0, 0>>, <<1, 1>>, <<0 - 1, 0>>, <<0, 0 - 1>>}} :
            Returned(g)}}

\* the genome the caller gives the critter it creates as object number id
InputPhysique(id) == Physique(id, 2 * id, 1, id + 1, 2)

InputSensory(id) == Sensory(<<"food", "wall">>)

InputBrain(id) == Brain_random_init(<<"identity">>, <<2, 1>>, id).value

\* the score the caller's simulation gave object number id
InputFitness(id) == (2 * id) % 3

InputCritter(id, cls, fitness) ==
    Critter(id, cls, InputPhysique(id), InputSensory(id), InputBrain(id),
            DefaultLocation, fitness, 0)

\* the location the caller supplies for an offspring
Locations == {Location(<<1, 1>>, 1, 0)}

\* a call record: the operation, the critters list at the time of the call,
\* the positions i and j in it of the critters passed, the other arguments and
\* the outcome
NoGACall ==
    [op |-> "none", critters |-> <<>>, i |-> 0, j |-> 0,
     location |-> DefaultLocation, mutate_physique |-> FALSE,
     mutate_brain |-> FALSE, res |-> Return(<<>>)]

GACall(op, i, j, location, mp, mb, res) ==
    [op |-> op, critters |-> critters, i |-> i, j |-> j, location |-> location,
     mutate_physique |-> mp, mutate_brain |-> mb, res |-> res]

\* the caller creates a Critter and appends it to its list
NewCritter ==
    /\ Len(critters) < MaxPop
    /\ \E cls \in Species :
         critters' = Append(critters,
                            InputCritter(Len(critters) + 1, cls,
                                         InputFitness(Len(critters) + 1)))
    /\ UNCHANGED <<ga, last, net, out>>

Select ==
    /\ last' = GACall("select", 0, 0, DefaultLocation, FALSE, FALSE,
                      Return(select(ga, critters)))
    /\ UNCHANGED <<ga, critters, net, out>>

Crossover ==
    /\ \E i \in 1..Len(critters), j \in 1..Len(critters) :
         /\ i # j
         /\ last' = GACall("crossover", i, j, DefaultLocation, FALSE, FALSE,
                           crossover(ga, critters[i], critters[j]))
    /\ UNCHANGED <<ga, critters, net, out>>

MutatePhysique ==
    /\ \E i \in 1..Len(critters) :
         \E o \in mutate_physique(ga, critters[i].physique) :
            /\ last' = GACall("mutate_physique", i, 0, DefaultLocation,
                              TRUE, FALSE, o)
            /\ critters' = IF Returned(o)
                           THEN [critters EXCEPT ![i].physique = o.value]
                           ELSE critters
    /\ UNCHANGED <<ga, net, out>>

MutateBrain ==
    /\ \E i \in 1..Len(critters) :
         \E o \in mutate_brain(ga, critters[i].brain) :
            /\ last' = GACall("mutate_brain", i, 0, DefaultLocation,
                              FALSE, TRUE, o)
            /\ critters' = IF Returned(o)
                           THEN [critters EXCEPT ![i].brain = o.value]
                           ELSE critters
    /\ UNCHANGED <<ga, net, out>>

MatePair ==
    /\ \E i \in 1..Len(critters), j \in 1..Len(critters) :
         /\ i # j
         /\ \E location \in Locations, mp \in BOOLEAN, mb \in BOOLEAN :
              \E o \in mate_pair(ga, critters[i], critters[j], location,
                                 mp, mb, Len(critters) + 1) :
                 last' = GACall("mate_pair", i, j, location, mp, mb, o)
    /\ UNCHANGED <<ga, critters, net, out>>

EvolveGeneration ==
    /\ \E mp \in BOOLEAN, mb \in BOOLEAN :
         \E o \in evolve_generation(ga, critters, mp, mb) :
            last' = GACall("evolve_generation", 0, 0, DefaultLocation,
                           mp, mb, o)
    /\ UNCHANGED <<ga, critters, net, out>>

Init ==
    /\ ga \in GAs
    /\ critters = <<>>
    /\ last = NoGACall
    /\ net = NoBrain
    /\ out = NoCall

Next ==
    \/ NewCritter
    \/ Select
    \/ Crossover
    \/ MutatePhysique
    \/ MutateBrain
    \/ MatePair
    \/ EvolveGeneration

Spec == Init /\ [][Next]_vars

\* selection alone, on every scored list within the bounds
SelectPopulations ==
    UNION {{[k \in 1..n |-> InputCritter(k, "Critter", fs[k])] :
              fs \in [1..n -> 0..MaxSelectFit]} : n \in 0..MaxSelectPop}

InitSelect ==
    /\ ga \in GAs
    /\ critters \in SelectPopulations
    /\ last = NoGACall
    /\ net = NoBrain
    /\ out = NoCall

NextSelect == Select

SpecSelect == InitSelect /\ [][NextSelect]_vars

\* inference alone, on every network and input within the bounds
InitBrain ==
    /\ ga = CHOOSE g \in GAs : TRUE
    /\ critters = <<>>
    /\ last = NoGACall
    /\ net \in Brains
    /\ \E x \in Inputs : out = [NoCall EXCEPT !.x = x]

NextBrain == Infer

SpecBrain == InitBrain /\ [][NextBrain]_vars

(******************************* properties ********************************)
Fitnesses(cs) == [k \in 1..Len(cs) |-> cs[k].fitness]

Ids(cs) == [k \in 1..Len(cs) |-> cs[k].id]

\* a ranks before b: fitter, or as fit and earlier in the list (an object's id
\* is its position in the list).  last.critters is the list as passed to the
\* call, critters the caller's list now.
RanksBefore(a, b) ==
    \/ a.fitness > b.fitness
    \/ (a.fitness = b.fitness /\ a.id < b.id)

\* C1: for a list of N >= 2 critters evolve_generation returns a list of
\* exactly N critters.
C1_EvolveKeepsSize ==
    (last.op = "evolve_generation" /\ Len(last.critters) >= 2)
        => (Returned(last.res) /\ Len(last.res.value) = Len(last.critters))

\* C2: the result of evolve_generation starts with the selected critters,
\* unchanged and in selection order, followed by the offspring, also with
\* mutation enabled.
C2_Elitism ==
    (last.op = "evolve_generation" /\ Len(select(ga, last.critters)) >= 2)
        => /\ Returned(last.res)
           /\ Len(last.res.value) >= Len(select(ga, last.critters))
           /\ SubSeq(last.res.value, 1, Len(select(ga, last.critters)))
                = select(ga, last.critters)
           /\ \A k \in (Len(select(ga, last.critters)) + 1)..Len(last.res.value) :
                last.res.value[k].id > Len(last.critters)

\* C3: _select returns the first floor(N * selection_frac) critters of the
\* list ordered by fitness descending, critters of equal fitness in their
\* original order, and leaves the list itself as it was; fitness 10, 1, 5, 2
\* (here 3, 0, 2, 1) with fraction 1/2 gives the critters of fitness 10 and 5.
C3_SelectTopByFitness ==
    last.op = "select" =>
        LET r == last.res.value
            chosen == {r[m].id : m \in 1..Len(r)}
        IN /\ Returned(last.res)
           /\ Len(r) * ga.selection_frac.den <= Len(last.critters) * ga.selection_frac.num
           /\ (Len(r) + 1) * ga.selection_frac.den > Len(last.critters) * ga.selection_frac.num
           /\ \A m \in 1..Len(r) :
                r[m].id \in 1..Len(last.critters) /\ r[m] = last.critters[r[m].id]
           /\ \A a \in 1..Len(r), b \in 1..Len(r) :
                a < b => RanksBefore(r[a], r[b])
           /\ \A m \in 1..Len(r), k \in 1..Len(last.critters) :
                k \notin chosen => RanksBefore(r[m], last.critters[k])
           /\ critters = last.critters
           /\ Ids(critters) = [k \in 1..Len(critters) |-> k]
           /\ (Fitnesses(last.critters) = <<3, 0, 2, 1>>
               /\ ga.selection_frac = [num |-> 2, den |-> 4])
                => Ids(r) = <<1, 3>>

\* four critters, two pairs of equal fitness, three of them selected
C3_Witness ==
    /\ last.op = "select"
    /\ Fitnesses(last.critters) = <<2, 3, 2, 3>>
    /\ ga.selection_frac = [num |-> 3, den |-> 4]
    /\ Ids(last.res.value) = <<2, 4, 1>>

\* C4: _crossover with crossover_rate 0 returns the primary parent's traits
\* and weights, with crossover_rate 1 the secondary parent's.
C4_CrossoverEndpoints ==
    last.op = "crossover" =>
        LET parent == IF ga.crossover_rate = 0 THEN last.critters[last.i]
                      ELSE last.critters[last.j]
        IN /\ Returned(last.res)
           /\ last.res.value[1] = parent.physique
           /\ last.res.value[2].coefs = parent.brain.coefs
           /\ last.res.value[2].intercepts = parent.brain.intercepts

\* C5: _mutate_physique with physical_mutation_rate 0 and _mutate_brain with
\* mental_mutation_rate 0 return the physique, the brain, with every value
\* as it was before the call.
C5_ZeroRateMutationIsIdentity ==
    /\ (last.op = "mutate_physique" /\ ga.physical_mutation_rate = 0)
          => (Returned(last.res) /\ last.res.value = InputPhysique(last.i))
    /\ (last.op = "mutate_brain" /\ ga.mental_mutation_rate = 0)
          => (Returned(last.res) /\ last.res.value = InputBrain(last.i))

\* the caller's critters are as it created them
ParentsUnmodified ==
    \A k \in 1..Len(critters) :
        critters[k] = InputCritter(k, critters[k].cls, InputFitness(k))

\* C6: mate_pair on two critters of different classes raises at its species
\* assertion, before any crossover or mutation: there is no offspring and
\* the parents are as they were; evolve_generation does not catch the error,
\* so it raises it too when it mates two selected critters of different
\* classes.
C6_SpeciesMismatchRaises ==
    /\ (last.op = "mate_pair" /\ last.critters[last.i].cls # last.critters[last.j].cls)
          => (last.res = Raise("AssertionError", "mate_pair") /\ ParentsUnmodified)
    /\ last.op = "evolve_generation" =>
          LET selection == select(ga, last.critters)
          IN /\ (Len(selection) = 2 /\ selection[1].cls # selection[2].cls)
                  => (last.res = Raise("AssertionError", "mate_pair")
                      /\ ParentsUnmodified)
             /\ last.res.exc = "AssertionError"
                  => \E a \in 1..Len(selection), b \in 1..Len(selection) :
                        selection[a].cls # selection[b].cls

C6_Witness ==
    /\ last.op = "evolve_generation"
    /\ Len(last.critters) = 3
    /\ Len(select(ga, last.critters)) = 2
    /\ select(ga, last.critters)[1].cls # select(ga, last.critters)[2].cls
    /\ last.res = Raise("AssertionError", "mate_pair")

\* C7: _select and evolve_generation on a list of zero or one critter report
\* an EmptyPopulationError and return no list.
C7_SmallPopulationGuarded ==
    (last.op \in {"select", "evolve_generation"} /\ Len(last.critters) <= 1)
        => (~Returned(last.res) /\ last.res.exc = "EmptyPopulationError")

\* C8: mate_pair returns an offspring whose sensory is the primary parent's,
\* whose location is the one supplied and whose fitness is the default 0.
C8_OffspringInheritance ==
    (last.op = "mate_pair" /\ last.critters[last.i].cls = last.critters[last.j].cls)
        => /\ Returned(last.res)
           /\ last.res.value.sensory = last.critters[last.i].sensory
           /\ last.res.value.location = last.location
           /\ last.res.value.fitness = 0

\* the input, or a row of the batch, is not as wide as the first layer expects
WrongWidth(b, x) ==
    IF x.ndim > 1
    THEN \E k \in 1..Len(x.data) : Len(x.data[k]) # Len(b.coefs[1])
    ELSE Len(x.data) # Len(b.coefs[1])

\* C9: Brain.__call__ on an input of the wrong width, a single vector or a
\* batch with such a row, raises the shape error of the matrix product and
\* returns no output.
C9_WrongWidthRaises ==
    (out.op = "call" /\ WrongWidth(net, out.x))
        => out.res = Raise("ValueError", "np.dot")

\* a batch of two rows, each one wider than the first layer of a two-layer
\* network expects
C9_Witness ==
    /\ out.op = "call"
    /\ out.x.ndim = 2
    /\ Len(out.x.data) = 2
    /\ Len(out.x.data[1]) = Len(net.coefs[1]) + 1
    /\ Len(net.coefs) = 2
    /\ out.res = Raise("ValueError", "np.dot")

\* the (attribute, layer) pairs in which brain b differs from brain a
ChangedTensors(a, b) ==
    {p \in {"coefs", "intercepts"} \X (1..Len(a.coefs)) :
        a[p[1]][p[2]] # b[p[1]][p[2]]}

ChangedTraits(a, b) ==
    {k \in 1..Len(PhysiqueAtts) : a[PhysiqueAtts[k]] # b[PhysiqueAtts[k]]}

\* C10: _mutate_brain returns the brain with one (attribute, layer) tensor
\* changed and everything else, the activations and all shapes included, as it
\* was; _mutate_physique returns the physique with one field changed.
C10_MutationChangesOnePair ==
    /\ last.op = "mutate_brain" =>
          /\ Returned(last.res)
          /\ last.res.value.afs = InputBrain(last.i).afs
          /\ Len(last.res.value.coefs) = Len(InputBrain(last.i).coefs)
          /\ Len(last.res.value.intercepts) = Len(InputBrain(last.i).intercepts)
          /\ Cardinality(ChangedTensors(InputBrain(last.i), last.res.value)) <= 1
    /\ last.op = "mutate_physique" =>
          /\ Returned(last.res)
          /\ Cardinality(ChangedTraits(InputPhysique(last.i), last.res.value)) <= 1

====
